---- MODULE Spec2Model ----
(***************************************************************************)
(* Model of benchmark-e2e.py: main, global_setup, run_jobs, VLLMJob.run,   *)
(* SGLangJob.run and wait_for_server.  The program is one control thread;  *)
(* pc is its position.  The servers it spawns run on their own and are     *)
(* represented by their process-group state.  Time is counted in ticks of  *)
(* 1/TicksPerSec second; the clock advances only where the program blocks  *)
(* inside wait_for_server (requests.get and time.sleep).                    *)
(***************************************************************************)
EXTENDS Integers, Sequences, FiniteSets, TLC

VARIABLES pc, fs, setupStep, jobIdx, step, server, kills, reaped, outcome, cause,
          runs, swept, events, log,
          timeout_s, interval_s, now, deadline, readyAt, wfsResult, r

jobVars == <<fs, setupStep, jobIdx, step, server, kills, reaped, outcome, cause,
             runs, swept, events, log>>
waitVars == <<timeout_s, interval_s, now, deadline, readyAt, wfsResult, r>>
vars == <<pc, fs, setupStep, jobIdx, step, server, kills, reaped, outcome, cause,
          runs, swept, events, log,
          timeout_s, interval_s, now, deadline, readyAt, wfsResult, r>>

(* ---------------- bounds of the model ---------------- *)
\* clock resolution: ticks per second
TicksPerSec == 2
\* largest timeout / interval (in ticks) tried when wait_for_server is
\* exercised on its own, next to the default pair
MaxTimeout == 6
MaxInterval == 3
\* a spawned server becomes ready k * StartupStepS seconds after its spawn,
\* k in 0..MaxStartupSteps, or never
MaxStartupSteps == 2
StartupStepS == 50

(* ---------------- program constants ---------------- *)
DefaultTimeoutS == 120
DefaultIntervalS == 2
RequestTimeoutS == 1

DefaultTimeout == DefaultTimeoutS * TicksPerSec
DefaultInterval == DefaultIntervalS * TicksPerSec
RequestTimeout == RequestTimeoutS * TicksPerSec

\* main: jobs = [VLLMJob("vllm", ...), SGLangJob("sglang", ...)]
jobs == <<"vllm", "sglang">>
JobIds == 1..Len(jobs)

\* the statements of global_setup that can raise (run_cmd / ensure_uv)
SetupCmds == <<"ensure_uv", "clone_benchmark_compare", "clone_vllm", "checkout">>

VLLMStepsPopenFirst ==
  <<"popen", "venv", "install", "wait_for_server",
    "venv_src", "deps", "bench", "killpg", "wait">>

\* the statements of VLLMJob.run, in program order
VLLMSteps ==
  <<"venv", "install", "popen", "wait_for_server",
    "venv_src", "deps", "bench", "killpg", "wait">>

SGLangStepsBenchFirst ==
  <<"venv", "install", "popen", "bench", "wait_for_server", "killpg", "wait">>

\* the statements of SGLangJob.run, in program order
SGLangSteps ==
  <<"venv", "install", "popen", "wait_for_server", "bench", "killpg", "wait">>

Steps(name) == IF name = "vllm" THEN VLLMSteps ELSE SGLangSteps

(* ---------------- response bodies (r.text) as character sequences ------- *)
\* {"data":[1]}
ReadyText == <<"{", "q", "d", "a", "t", "a", "q", ":", "[", "1", "]", "}">>
\* {"error":1}
LoadingText == <<"{", "q", "e", "r", "r", "o", "r", "q", ":", "1", "}">>
\* <html>
GarbageText == <<"<", "h", "t", "m", "l", ">">>
\* {"error":"no data"}
ErrDataText ==
  <<"{", "q", "e", "r", "r", "o", "r", "q", ":", "q", "n", "o", " ",
    "d", "a", "t", "a", "q", "}">>
\* requests.get raised (connection refused, timeout, ...): there is no r
Exc == <<"EXC">>
\* no request made yet in this iteration
NoResp == <<"NONE">>

Needle == <<"d", "a", "t", "a">>

\* Python's  "data" in r.text : substring test
HasData(text) ==
  \E i \in 1..Len(text) :
     /\ i + Len(Needle) - 1 <= Len(text)
     /\ SubSeq(text, i, i + Len(Needle) - 1) = Needle

Never == 0 - 1

\* the service answers with its model listing from readyAt on, for ever
ServiceReady(t) == readyAt # Never /\ t >= readyAt

NotReadyAnswers == {Exc, LoadingText, GarbageText, ErrDataText}

Answers(t) == IF ServiceReady(t) THEN {ReadyText} ELSE NotReadyAnswers

(* ---------------- wait_for_server ---------------- *)
\* deadline = time.time() + timeout_s
WfsEnter ==
  /\ pc = "wfs_entry"
  /\ deadline' = now + timeout_s
  /\ wfsResult' = "none"
  /\ r' = NoResp
  /\ pc' = "wfs_loop"
  /\ UNCHANGED <<timeout_s, interval_s, now, readyAt>>
  /\ UNCHANGED jobVars

LoopCondLe == now <= deadline

\* while time.time() < deadline
LoopCond == now < deadline

AfterProbeNoReturn(found) == "wfs_sleep"

\* where control goes after the try block of one iteration
AfterProbe(found) == IF found THEN "wfs_done" ELSE "wfs_sleep"

\* one iteration's try block: requests.get(url, timeout=1), the test of
\* r.text, and the return.  The request takes d ticks and the service
\* answers according to its state at some instant of the request.
WfsPoll ==
  /\ pc = "wfs_loop"
  /\ LoopCond
  /\ \E d \in 0..RequestTimeout :
       \E u \in 0..d :
         \E resp \in Answers(now + u) :
           LET found == resp # Exc /\ HasData(resp) IN
             /\ now' = now + d
             /\ r' = resp
             /\ wfsResult' = IF found THEN "ok" ELSE wfsResult
             /\ pc' = AfterProbe(found)
  /\ UNCHANGED <<timeout_s, interval_s, deadline, readyAt>>
  /\ UNCHANGED jobVars

SleepTicksNone == interval_s - interval_s

SleepTicksTwice == 2 * interval_s

\* time.sleep(interval_s)
SleepTicks == interval_s

WfsSleep ==
  /\ pc = "wfs_sleep"
  /\ now' = now + SleepTicks
  /\ r' = NoResp
  /\ pc' = "wfs_loop"
  /\ UNCHANGED <<timeout_s, interval_s, deadline, readyAt, wfsResult>>
  /\ UNCHANGED jobVars

\* raise TimeoutError(...)
WfsTimeout ==
  /\ pc = "wfs_loop"
  /\ ~LoopCond
  /\ wfsResult' = "timeout"
  /\ pc' = "wfs_done"
  /\ UNCHANGED <<timeout_s, interval_s, now, deadline, readyAt, r>>
  /\ UNCHANGED jobVars

(* ---------------- global_setup ---------------- *)
\* what a run leaves on disk under the working directory
AllPaths ==
  {"benchmark-compare", "benchmark-compare/vllm",
   "benchmark-compare/vllm/venv-vllm-src",
   "benchmark-compare/vllm/venv-vllm-src/deps",
   "venv-vllm", "venv-vllm/vllm", "venv-sgl", "venv-sgl/sglang"}

\* the disk after one statement of global_setup.  The rmtree calls come
\* first (with ensure_uv here); with ignore_errors=True a removal that fails
\* is silent and leaves the tree.  git clone refuses an existing directory.
AfterStep(disk, cmd, ok) ==
  CASE cmd = "ensure_uv" -> {{}, disk}
    [] cmd = "clone_benchmark_compare" ->
         IF ok
         THEN IF "benchmark-compare" \in disk
              THEN {}
              ELSE {disk \cup {"benchmark-compare"}}
         ELSE {disk}
    [] cmd = "clone_vllm" ->
         IF ok THEN {disk \cup {"benchmark-compare/vllm"}} ELSE {disk}
    [] OTHER -> {disk}

GlobalSetupSwallow ==
  /\ pc = "global_setup"
  /\ \E ok \in BOOLEAN :
       \E left \in AfterStep(fs, SetupCmds[setupStep], ok) :
         /\ fs' = left
         /\ IF ok
            THEN /\ setupStep' = setupStep + 1
                 /\ pc' = IF setupStep = Len(SetupCmds) THEN "run_jobs" ELSE pc
                 /\ jobIdx' = IF setupStep = Len(SetupCmds) THEN 1 ELSE jobIdx
            ELSE /\ pc' = "run_jobs"
                 /\ jobIdx' = 1
                 /\ UNCHANGED setupStep
  /\ UNCHANGED <<step, server, kills, reaped, outcome, cause, runs, swept,
                 events, log>>
  /\ UNCHANGED waitVars

\* one statement of global_setup; a failing run_cmd raises
\* CalledProcessError, which nothing in main catches
GlobalSetup ==
  /\ pc = "global_setup"
  /\ \E ok \in BOOLEAN :
       \E left \in AfterStep(fs, SetupCmds[setupStep], ok) :
         /\ fs' = left
         /\ IF ok
            THEN /\ setupStep' = setupStep + 1
                 /\ pc' = IF setupStep = Len(SetupCmds) THEN "run_jobs" ELSE pc
                 /\ jobIdx' = IF setupStep = Len(SetupCmds) THEN 1 ELSE jobIdx
            ELSE /\ pc' = "crashed"
                 /\ UNCHANGED <<setupStep, jobIdx>>
  /\ UNCHANGED <<step, server, kills, reaped, outcome, cause, runs, swept,
                 events, log>>
  /\ UNCHANGED waitVars

(* ---------------- run_jobs ---------------- *)
CurName == jobs[jobIdx]
CurKind ==
  IF step \in 1..Len(Steps(CurName)) THEN Steps(CurName)[step] ELSE "return"

\* for job in jobs: logger.info("Running ..."); job.run()
RunJobsNext ==
  /\ pc = "run_jobs"
  /\ jobIdx \in JobIds
  /\ log' = Append(log, <<"start", CurName>>)
  /\ runs' = [runs EXCEPT ![jobIdx] = @ + 1]
  /\ step' = 1
  /\ pc' = "job_run"
  /\ UNCHANGED <<fs, setupStep, jobIdx, server, kills, reaped, outcome, cause,
                 swept, events>>
  /\ UNCHANGED waitVars

\* the for loop is exhausted: run_jobs returns to main
RunJobsReturn ==
  /\ pc = "run_jobs"
  /\ jobIdx > Len(jobs)
  /\ pc' = "final_msg"
  /\ UNCHANGED jobVars
  /\ UNCHANGED waitVars

OnFailureRetry(i) == [pc |-> "run_jobs", idx |-> i]

OnFailureContinue(i) == [pc |-> "run_jobs", idx |-> i + 1]

\* except Exception as e: logger.error(...); return
OnFailure(i) == [pc |-> "final_msg", idx |-> i]

RaiseInJobSilent(kind) ==
  /\ outcome' = [outcome EXCEPT ![jobIdx] = "failed"]
  /\ cause' = [cause EXCEPT ![jobIdx] = kind]
  /\ pc' = "final_msg"
  /\ UNCHANGED <<log, jobIdx>>

RaiseInJobUncaught(kind) ==
  /\ cause' = [cause EXCEPT ![jobIdx] = kind]
  /\ pc' = "crashed"
  /\ UNCHANGED <<outcome, log, jobIdx>>

\* an exception raised by statement `kind` of job.run leaves job.run and
\* is handled by the except clause of run_jobs
RaiseInJob(kind) ==
  /\ outcome' = [outcome EXCEPT ![jobIdx] = "failed"]
  /\ cause' = [cause EXCEPT ![jobIdx] = kind]
  /\ log' = Append(log, <<"failed", CurName>>)
  /\ pc' = OnFailure(jobIdx).pc
  /\ jobIdx' = OnFailure(jobIdx).idx

\* job.run() returned: logger.info("... completed")
RunJobsCompleted ==
  /\ pc = "job_run"
  /\ CurKind = "return"
  /\ outcome' = [outcome EXCEPT ![jobIdx] = "completed"]
  /\ log' = Append(log, <<"completed", CurName>>)
  /\ pc' = "sweep"
  /\ UNCHANGED <<fs, setupStep, jobIdx, step, server, kills, reaped, cause, runs,
                 swept, events>>
  /\ UNCHANGED waitVars

SweepCondAlways(name) == TRUE

\* if job.name == "vllm"
SweepCond(name) == name = "vllm"

\* logger.info("Killing vllm serve process group");
\* subprocess.run(["pkill", "-f", "vllm serve"], check=False)
RunJobsSweep ==
  /\ pc = "sweep"
  /\ IF SweepCond(CurName)
     THEN /\ swept' = [swept EXCEPT ![jobIdx] = @ + 1]
          /\ log' = Append(log, <<"sweep", CurName>>)
          /\ server' = [j \in JobIds |->
                          IF jobs[j] = "vllm" /\ server[j] = "alive"
                          THEN "dead" ELSE server[j]]
     ELSE UNCHANGED <<swept, log, server>>
  /\ jobIdx' = jobIdx + 1
  /\ pc' = "run_jobs"
  /\ UNCHANGED <<fs, setupStep, step, kills, reaped, outcome, cause, runs, events>>
  /\ UNCHANGED waitVars

(* ---------------- VLLMJob.run / SGLangJob.run ---------------- *)
\* the directory or installation that a successful command of job.run leaves
\* on disk
Produces(name, kind) ==
  IF name = "vllm"
  THEN CASE kind = "venv" -> "venv-vllm"
         [] kind = "install" -> "venv-vllm/vllm"
         [] kind = "venv_src" -> "benchmark-compare/vllm/venv-vllm-src"
         [] OTHER -> "benchmark-compare/vllm/venv-vllm-src/deps"
  ELSE CASE kind = "venv" -> "venv-sgl"
         [] OTHER -> "venv-sgl/sglang"

\* run_cmd([...]): proc.check_returncode() raises on a non-zero exit
JobRunCmd ==
  /\ pc = "job_run"
  /\ CurKind \in {"venv", "install", "venv_src", "deps"}
  /\ \E ok \in BOOLEAN :
       IF ok
       THEN /\ step' = step + 1
            /\ fs' = fs \cup {Produces(CurName, CurKind)}
            /\ UNCHANGED <<pc, jobIdx, outcome, cause, log>>
       ELSE /\ RaiseInJob(CurKind)
            /\ UNCHANGED <<step, fs>>
  /\ UNCHANGED <<setupStep, server, kills, reaped, runs, swept, events>>
  /\ UNCHANGED waitVars

StartupTimes == {k * StartupStepS * TicksPerSec : k \in 0..MaxStartupSteps}

\* proc = subprocess.Popen(..., preexec_fn=os.setsid, shell=True)
\* The clock is read from the spawn on; the server becomes ready at
\* readyAt, or never.
JobPopen ==
  /\ pc = "job_run"
  /\ CurKind = "popen"
  /\ \E ok \in BOOLEAN :
       IF ok
       THEN /\ server' = [server EXCEPT ![jobIdx] = "alive"]
            /\ events' = [events EXCEPT ![jobIdx] = Append(@, "popen")]
            /\ \E t \in StartupTimes \cup {Never} : readyAt' = t
            /\ now' = 0
            /\ step' = step + 1
            /\ UNCHANGED <<pc, jobIdx, outcome, cause, log>>
       ELSE /\ RaiseInJob(CurKind)
            /\ UNCHANGED <<server, events, readyAt, now, step>>
  /\ UNCHANGED <<fs, setupStep, kills, reaped, runs, swept>>
  /\ UNCHANGED <<timeout_s, interval_s, deadline, wfsResult, r>>

\* wait_for_server("localhost", self.port, self.logger): default
\* timeout_s and interval_s
JobWaitCall ==
  /\ pc = "job_run"
  /\ CurKind = "wait_for_server"
  /\ timeout_s' = DefaultTimeout
  /\ interval_s' = DefaultInterval
  /\ pc' = "wfs_entry"
  /\ UNCHANGED <<now, deadline, readyAt, wfsResult, r>>
  /\ UNCHANGED jobVars

\* wait_for_server returned or raised into job.run
JobWaitDone ==
  /\ pc = "wfs_done"
  /\ jobIdx \in JobIds
  /\ IF wfsResult = "ok"
     THEN /\ events' = [events EXCEPT ![jobIdx] = Append(@, "ready")]
          /\ step' = step + 1
          /\ pc' = "job_run"
          /\ UNCHANGED <<jobIdx, outcome, cause, log>>
     ELSE /\ RaiseInJob(CurKind)
          /\ UNCHANGED <<events, step>>
  /\ UNCHANGED <<fs, setupStep, server, kills, reaped, runs, swept>>
  /\ UNCHANGED waitVars

\* subprocess.run(["bash", "-c", bench_cmd], ..., check=True) is entered
JobBenchStart ==
  /\ pc = "job_run"
  /\ CurKind = "bench"
  /\ events' = [events EXCEPT ![jobIdx] = Append(@, "bench_start")]
  /\ pc' = "bench_running"
  /\ UNCHANGED <<fs, setupStep, jobIdx, step, server, kills, reaped, outcome,
                 cause, runs, swept, log>>
  /\ UNCHANGED waitVars

\* the benchmark script exits; check=True raises on a non-zero exit
JobBenchReturn ==
  /\ pc = "bench_running"
  /\ \E ok \in BOOLEAN :
       IF ok
       THEN /\ events' = [events EXCEPT ![jobIdx] = Append(@, "bench_ok")]
            /\ step' = step + 1
            /\ pc' = "job_run"
            /\ UNCHANGED <<jobIdx, outcome, cause, log>>
       ELSE /\ events' = [events EXCEPT ![jobIdx] = Append(@, "bench_failed")]
            /\ RaiseInJob(CurKind)
            /\ UNCHANGED step
  /\ UNCHANGED <<fs, setupStep, server, kills, reaped, runs, swept>>
  /\ UNCHANGED waitVars

\* os.killpg(os.getpgid(proc.pid), signal.SIGKILL); either call can raise
\* (ProcessLookupError: the group is gone; PermissionError: it is not)
JobKillpg ==
  /\ pc = "job_run"
  /\ CurKind = "killpg"
  /\ events' = [events EXCEPT ![jobIdx] = Append(@, "killpg")]
  /\ \E ok \in BOOLEAN :
       IF ok
       THEN /\ kills' = [kills EXCEPT ![jobIdx] = @ + 1]
            /\ server' = [server EXCEPT ![jobIdx] = "dead"]
            /\ step' = step + 1
            /\ UNCHANGED <<pc, jobIdx, outcome, cause, log>>
       ELSE /\ \E s \in {"alive", "dead"} :
                 server' = [server EXCEPT ![jobIdx] = s]
            /\ RaiseInJob(CurKind)
            /\ UNCHANGED <<kills, step>>
  /\ UNCHANGED <<fs, setupStep, reaped, runs, swept>>
  /\ UNCHANGED waitVars

\* proc.wait()
JobProcWait ==
  /\ pc = "job_run"
  /\ CurKind = "wait"
  /\ server[jobIdx] = "dead"
  /\ reaped' = [reaped EXCEPT ![jobIdx] = TRUE]
  /\ events' = [events EXCEPT ![jobIdx] = Append(@, "reap")]
  /\ step' = step + 1
  /\ UNCHANGED <<pc, fs, setupStep, jobIdx, server, kills, outcome, cause, runs,
                 swept, log>>
  /\ UNCHANGED waitVars

(* ---------------- main ---------------- *)
\* main_logger.info("Benchmark results are in ...")
MainFinal ==
  /\ pc = "final_msg"
  /\ log' = Append(log, <<"results", "main">>)
  /\ pc' = "done"
  /\ UNCHANGED <<fs, setupStep, jobIdx, step, server, kills, reaped, outcome,
                 cause, runs, swept, events>>
  /\ UNCHANGED waitVars

\* the state of main just before global_setup(root, main_logger)
Init ==
  /\ pc = "global_setup"
  /\ fs \in {{}, AllPaths}
  /\ setupStep = 1
  /\ jobIdx = 0
  /\ step = 0
  /\ server = [j \in JobIds |-> "none"]
  /\ kills = [j \in JobIds |-> 0]
  /\ reaped = [j \in JobIds |-> FALSE]
  /\ outcome = [j \in JobIds |-> "none"]
  /\ cause = [j \in JobIds |-> "none"]
  /\ runs = [j \in JobIds |-> 0]
  /\ swept = [j \in JobIds |-> 0]
  /\ events = [j \in JobIds |-> <<>>]
  /\ log = <<>>
  /\ timeout_s = DefaultTimeout
  /\ interval_s = DefaultInterval
  /\ now = 0
  /\ deadline = 0
  /\ readyAt = Never
  /\ wfsResult = "none"
  /\ r = NoResp

Next ==
  \/ GlobalSetup
  \/ RunJobsNext
  \/ RunJobsReturn
  \/ RunJobsCompleted
  \/ RunJobsSweep
  \/ JobRunCmd
  \/ JobPopen
  \/ JobWaitCall
  \/ WfsEnter
  \/ WfsPoll
  \/ WfsSleep
  \/ WfsTimeout
  \/ JobWaitDone
  \/ JobBenchStart
  \/ JobBenchReturn
  \/ JobKillpg
  \/ JobProcWait
  \/ MainFinal

Spec == Init /\ [][Next]_vars

\* the program is one thread that is never descheduled for ever and every
\* external call (commands, requests, sleep, proc.wait) returns: whenever a
\* step is possible, one is eventually taken
FairSpec == Init /\ [][Next]_vars /\ WF_vars(Next)

(* ---------------- wait_for_server called on its own ---------------- *)
WaitParams ==
  {<<T, I>> : T \in 1..MaxTimeout, I \in 1..MaxInterval}
    \cup {<<DefaultTimeout, DefaultInterval>>}

\* a call wait_for_server(host, port, logger, timeout_s, interval_s) at
\* clock 0, against a service that becomes ready at readyAt or never
InitWait ==
  /\ pc = "wfs_entry"
  /\ fs = {}
  /\ setupStep = 1
  /\ jobIdx = 0
  /\ step = 0
  /\ server = [j \in JobIds |-> "none"]
  /\ kills = [j \in JobIds |-> 0]
  /\ reaped = [j \in JobIds |-> FALSE]
  /\ outcome = [j \in JobIds |-> "none"]
  /\ cause = [j \in JobIds |-> "none"]
  /\ runs = [j \in JobIds |-> 0]
  /\ swept = [j \in JobIds |-> 0]
  /\ events = [j \in JobIds |-> <<>>]
  /\ log = <<>>
  /\ \E p \in WaitParams :
       /\ timeout_s = p[1]
       /\ interval_s = p[2]
       /\ readyAt \in (0..(p[1] + p[2] + RequestTimeout)) \cup {Never}
  /\ now = 0
  /\ deadline = 0
  /\ wfsResult = "none"
  /\ r = NoResp

NextWait ==
  \/ WfsEnter
  \/ WfsPoll
  \/ WfsSleep
  \/ WfsTimeout

SpecWait == InitWait /\ [][NextWait]_vars

\* time spent in wait_for_server since its entry
Elapsed == now - (deadline - timeout_s)

(* ======================= properties ======================= *)
Has(j, e) == \E i \in 1..Len(events[j]) : events[j][i] = e
RunnerLeft(j) == jobIdx # j \/ pc \in {"final_msg", "done"}

\* C1: a job that failed after its server was spawned has had the server's
\* process group killed exactly once by the time the failure is reported
C1_TeardownOnFailure ==
  \A j \in JobIds :
     (outcome[j] = "failed" /\ Has(j, "popen")) => kills[j] = 1

\* C2: a job whose workload fails is recorded as failed, and once a job has
\* failed no later job of the sequence is ever run
C2_StopOnFailure ==
  \A j \in JobIds :
     /\ Has(j, "bench_failed") => (outcome[j] = "failed" /\ cause[j] = "bench")
     /\ outcome[j] = "failed" =>
          \A k \in JobIds : k > j => (runs[k] = 0 /\ events[k] = <<>>)

C2_Witness ==
  /\ pc = "done"
  /\ outcome[1] = "failed"
  /\ cause[1] = "bench"
  /\ runs[2] = 0

\* C3: at most one job's server process group is alive at any time
C3_OneServerAlive ==
  Cardinality({j \in JobIds : server[j] = "alive"}) <= 1

C3_Witness ==
  /\ server[1] = "dead"
  /\ server[2] = "alive"

\* C4: a job whose venv creation or package install fails has spawned no
\* server, has performed no teardown step and is failed
C4_ProvisioningFailureSkipsSpawn ==
  \A j \in JobIds :
     cause[j] \in {"venv", "install"} =>
        /\ outcome[j] = "failed"
        /\ server[j] = "none"
        /\ events[j] = <<>>
        /\ kills[j] = 0
        /\ ~reaped[j]

C4_Witness ==
  /\ outcome[1] = "completed"
  /\ cause[2] = "install"
  /\ pc = "done"

\* C5: in each job the benchmark script starts only after wait_for_server
\* returned success, and killpg starts only after the benchmark script returned
C5_Ordering ==
  \A j \in JobIds :
     \A i \in 1..Len(events[j]) :
        /\ events[j][i] = "bench_start" =>
             \E h \in 1..(i - 1) : events[j][h] = "ready"
        /\ events[j][i] = "killpg" =>
             \E h \in 1..(i - 1) : events[j][h] \in {"bench_ok", "bench_failed"}

C5_Witness ==
  /\ Has(1, "killpg")
  /\ Has(2, "killpg")

\* C6 as stated: once run_jobs has moved past a finished job (to the next
\* job or back to main), the pkill pass has been run for that job
C6_SweepAfterEveryJob ==
  \A j \in JobIds :
     (outcome[j] # "none" /\ RunnerLeft(j)) => swept[j] >= 1

\* C6 amended: the pkill pass is run exactly once after the vllm job
\* returned successfully, before the next job is started, and is never run
\* after a failed job nor after the sglang job
C6_SweepOnlyAfterVllmSuccess ==
  \A j \in JobIds :
     swept[j] = IF /\ jobs[j] = "vllm"
                   /\ outcome[j] = "completed"
                   /\ RunnerLeft(j)
                THEN 1 ELSE 0

C6_Witness ==
  /\ swept[1] = 1
  /\ pc = "run_jobs"
  /\ runs[2] = 0

\* C7: a job whose benchmark script succeeded is never reported as failed,
\* whatever happens in teardown
C7_TeardownNeverDecidesOutcome ==
  \A j \in JobIds :
     (Has(j, "bench_ok") /\ outcome[j] # "none") => outcome[j] = "completed"

\* C8 as stated: against a service that never answers ready, with
\* interval < timeout, the timeout is raised at an elapsed time in
\* [timeout, timeout + interval]
C8_TimeoutWithinInterval ==
  (pc = "wfs_done" /\ wfsResult = "timeout" /\ interval_s < timeout_s
     /\ readyAt = Never) =>
     /\ Elapsed >= timeout_s
     /\ Elapsed <= timeout_s + interval_s

\* C8 amended: the timeout is raised at an elapsed time of at least timeout
\* and less than timeout + interval + the request timeout
C8_TimeoutWithinIntervalPlusRequest ==
  (pc = "wfs_done" /\ wfsResult = "timeout" /\ interval_s < timeout_s) =>
     /\ Elapsed >= timeout_s
     /\ Elapsed < timeout_s + interval_s + RequestTimeout

C8_Witness ==
  /\ pc = "wfs_done"
  /\ wfsResult = "timeout"
  /\ readyAt = Never
  /\ interval_s < timeout_s
  /\ Elapsed > timeout_s + interval_s

\* C9 as stated: a service ready from t < timeout on makes wait_for_server
\* return success, at an elapsed time in [t, t + interval]
C9_ReadyWithinInterval ==
  (pc = "wfs_done" /\ readyAt # Never /\ readyAt < timeout_s
     /\ r # ErrDataText) =>
     /\ wfsResult = "ok"
     /\ readyAt <= Elapsed
     /\ Elapsed <= readyAt + interval_s

\* C9 amended: a success on the service's ready answer comes at an elapsed
\* time of at least t and less than t + interval + twice the request
\* timeout, and no timeout is raised when
\* t + interval + request timeout <= timeout
C9_ReadyWithinIntervalPlusRequests ==
  (pc = "wfs_done" /\ readyAt # Never) =>
     /\ (wfsResult = "ok" /\ r = ReadyText) =>
           /\ readyAt <= Elapsed
           /\ Elapsed < readyAt + interval_s + 2 * RequestTimeout
     /\ readyAt + interval_s + RequestTimeout <= timeout_s =>
           wfsResult = "ok"

C9_Witness ==
  /\ pc = "wfs_done"
  /\ wfsResult = "ok"
  /\ r = ReadyText
  /\ timeout_s = DefaultTimeoutS * TicksPerSec
  /\ interval_s = DefaultIntervalS * TicksPerSec
  /\ readyAt = 50 * TicksPerSec
  /\ Elapsed > readyAt + interval_s

\* C10: the poll that observes the ready answer returns success at once,
\* and wait_for_server is never at a probe or at a sleep once it has a success
C10_ReturnOnFirstReady ==
  [][/\ (pc = "wfs_loop" /\ r' = ReadyText) =>
          (pc' = "wfs_done" /\ wfsResult' = "ok")
     /\ pc' \in {"wfs_loop", "wfs_sleep"} => wfsResult' # "ok"]_vars

C10_Witness ==
  /\ wfsResult = "ok"
  /\ r = ReadyText
  /\ pc = "bench_running"

\* the text of a JSON member named "data":  "data":
DataKey == <<"q", "d", "a", "t", "a", "q", ":">>

\* the body carries the structural field: it has a member named "data"
HasDataField(text) ==
  \E i \in 1..Len(text) :
     /\ i + Len(DataKey) - 1 <= Len(text)
     /\ SubSeq(text, i, i + Len(DataKey) - 1) = DataKey

\* C11: wait_for_server returns success only on a body that has the "data"
\* field; on every other answer and on every request error it goes on to
\* the sleep of the loop, and it ends only with success or with the timeout
C11_ReadyOnlyOnDataField ==
  /\ wfsResult = "ok" => (r # Exc /\ HasDataField(r))
  /\ (pc = "wfs_sleep" /\ r # Exc) => ~HasDataField(r)
  /\ pc = "wfs_done" => wfsResult \in {"ok", "timeout"}

\* job j is inside job.run
InJob(j) ==
  /\ jobIdx = j
  /\ pc \in {"job_run", "wfs_entry", "wfs_loop", "wfs_sleep", "wfs_done",
             "bench_running"}

\* the outcome lines of the main logger that name job j
OutcomeMarkers(j) ==
  {i \in 1..Len(log) : log[i][2] = jobs[j] /\ log[i][1] \in {"completed", "failed"}}

\* C12: no exception of a job's run leaves run_jobs, and every job that was
\* started and has left job.run has exactly one outcome, completed or failed
C12_FailuresCaughtOneOutcome ==
  /\ pc = "crashed" => \A j \in JobIds : runs[j] = 0
  /\ \A j \in JobIds :
       /\ (runs[j] = 0 \/ InJob(j)) =>
            (outcome[j] = "none" /\ OutcomeMarkers(j) = {})
       /\ (runs[j] >= 1 /\ ~InJob(j)) =>
            /\ outcome[j] \in {"completed", "failed"}
            /\ Cardinality(OutcomeMarkers(j)) = 1
            /\ \A i \in OutcomeMarkers(j) : log[i][1] = outcome[j]

C12_Witness ==
  /\ pc = "done"
  /\ outcome[1] = "completed"
  /\ outcome[2] = "failed"
  /\ cause[2] = "wait_for_server"

\* C13: once run_jobs has moved past a job whose provisioning, spawn,
\* readiness and benchmark script all succeeded, the job is reported as
\* completed and its server's process group has been killed and reaped
C13_SuccessCompletedAndReaped ==
  \A j \in JobIds :
     (Has(j, "bench_ok") /\ RunnerLeft(j)) =>
        /\ outcome[j] = "completed"
        /\ kills[j] = 1
        /\ server[j] = "dead"
        /\ reaped[j]

\* the lines of the main logger of a given kind that name job j
Markers(j, kinds) ==
  {i \in 1..Len(log) : log[i][2] = jobs[j] /\ log[i][1] \in kinds}

\* a line that tells the operator that jobs were skipped
StatesSkipped(line) == line[1] = "skipped"

\* the start line of job j is followed by exactly one outcome line
StartThenOneOutcome(j) ==
  /\ Cardinality(Markers(j, {"start"})) = 1
  /\ InJob(j) => OutcomeMarkers(j) = {}
  /\ ~InJob(j) =>
       /\ Cardinality(OutcomeMarkers(j)) = 1
       /\ \A s \in Markers(j, {"start"}) : \A o \in OutcomeMarkers(j) : s < o

\* C14 as stated: every started job has a start line followed by exactly one
\* outcome line, and after a failure the log has a line that names the
\* failed job and states that the later jobs were skipped
C14_MarkersAndSkippedMessage ==
  \A j \in JobIds :
     /\ runs[j] >= 1 => StartThenOneOutcome(j)
     /\ outcome[j] = "failed" =>
          \E i \in 1..Len(log) : log[i][2] = jobs[j] /\ StatesSkipped(log[i])

\* C14 amended: every started job has a start line followed by exactly one
\* outcome line; after a failure that line is the "failed" line naming the
\* job, and no line of the log states that jobs were skipped
C14_MarkersAndFailedMessage ==
  /\ \A j \in JobIds :
       /\ runs[j] >= 1 => StartThenOneOutcome(j)
       /\ outcome[j] = "failed" =>
            \A o \in OutcomeMarkers(j) : log[o] = <<"failed", jobs[j]>>
  /\ \A i \in 1..Len(log) : ~StatesSkipped(log[i])

C14_Witness ==
  /\ pc = "done"
  /\ outcome[1] = "failed"
  /\ log = <<<<"start", "vllm">>, <<"failed", "vllm">>, <<"results", "main">>>>

\* C15: every job is run at most once, a job is started only after the job
\* before it in the list returned successfully, and a job that has an
\* outcome is never run again nor given another outcome
C15_OnceInOrder ==
  /\ [](\A j \in JobIds :
          /\ runs[j] <= 1
          /\ (j > 1 /\ runs[j] >= 1) =>
               (runs[j - 1] = 1 /\ outcome[j - 1] = "completed"))
  /\ [][\A j \in JobIds :
          outcome[j] # "none" =>
             (runs'[j] = runs[j] /\ outcome'[j] = outcome[j])]_vars

C15_Witness ==
  /\ runs[1] = 1
  /\ outcome[1] = "completed"
  /\ runs[2] = 1
  /\ outcome[2] = "failed"
  /\ pc = "done"

SetupCompleted == setupStep = Len(SetupCmds) + 1

\* C16: a job is run only after every statement of global_setup has
\* succeeded, a failed statement ends the program with no job run, and
\* global_setup is never entered a second time
C16_SetupOnceBeforeJobs ==
  /\ [](/\ \A j \in JobIds : runs[j] >= 1 => SetupCompleted
        /\ pc \notin {"global_setup", "crashed"} => SetupCompleted
        /\ pc = "crashed" =>
             (~SetupCompleted /\ \A j \in JobIds : runs[j] = 0))
  /\ [][pc # "global_setup" =>
          (pc' # "global_setup" /\ setupStep' = setupStep)]_vars

C16_Witness ==
  /\ SetupCompleted
  /\ pc = "job_run"
  /\ runs[1] = 1
  /\ step = 1

\* C17: once called, run_jobs eventually returns to main, and every call of
\* wait_for_server eventually ends, with success or with the timeout
C17_RunJobsReturns ==
  /\ (pc = "run_jobs") ~> (pc = "final_msg")
  /\ (pc = "wfs_entry") ~> (pc = "wfs_done" /\ wfsResult \in {"ok", "timeout"})

C17_Witness ==
  /\ pc = "done"
  /\ readyAt = Never
  /\ outcome[1] = "failed"
  /\ cause[1] = "wait_for_server"

\* the environment that both benchmark commands activate
VenvSrc ==
  {"benchmark-compare/vllm/venv-vllm-src",
   "benchmark-compare/vllm/venv-vllm-src/deps"}

\* C18: whenever the benchmark script of the sglang job has been started,
\* the vllm job has completed and vllm/venv-vllm-src exists with its
\* dependencies installed
C18_SglangBenchHasVenvSrc ==
  \A j \in JobIds :
     (jobs[j] = "sglang" /\ Has(j, "bench_start")) =>
        /\ VenvSrc \subseteq fs
        /\ \E k \in 1..(j - 1) : jobs[k] = "vllm" /\ outcome[k] = "completed"

C18_Witness ==
  /\ pc = "bench_running"
  /\ jobs[jobIdx] = "sglang"
  /\ VenvSrc \subseteq fs

\* C19: the final message of main is in the log only when every job of the
\* sequence completed successfully
C19_ResultsOnlyAfterSuccess ==
  (\E i \in 1..Len(log) : log[i] = <<"results", "main">>) =>
     \A j \in JobIds : outcome[j] = "completed"

====
